---- MODULE Spec2Model ----
(***************************************************************************)
(* A model of LoadBalancingEnv                                             *)
(* (src/drl-manager/gym_cloudsimplus/envs/loadbalancing_env.py): the       *)
(* gymnasium environment that sits between an RL agent and the CloudSim    *)
(* Plus gateway.  The environment object is the state; reset, step and     *)
(* action_masks are the actions.  The simulator behind the Py4J gateway is *)
(* an external collaborator: its answers are drawn nondeterministically.   *)
(* Three further specifications share the variables: SpecCalc (decoding    *)
(* and sizing on their own), SpecLife (the gateway connection from         *)
(* __init__ to close) and SpecAgg (SaveOnBestTrainingRewardCallback).      *)
(*                                                                         *)
(* Numbers.  Load and RAM ratios are held in hundredths (99 is 0.99).  A   *)
(* normalised scalar is the exact fraction [num, den].  Python lists are   *)
(* 0-indexed and so are the functions that model them here.                *)
(***************************************************************************)
EXTENDS Integers, Sequences, FiniteSets, TLC

VARIABLES
    cfg,               \* self.config and what __init__ derives from it
    sim,               \* the simulator's own state behind the gateway
    reply,             \* the gateway's answer to the last reset/step request
    last_observation,  \* self.last_observation (the attribute may not exist)
    current_step,      \* self.current_step (the attribute may not exist)
    gateway_calls,     \* the reset/step requests the gateway has served
    ret,               \* what the last call on the environment gave its caller
    calc,              \* a decoding or sizing on its own: its inputs and result
    life,              \* the gateway connection while __init__ and close run
    agg                \* the SaveOnBestTrainingRewardCallback object

vars == <<cfg, sim, reply, last_observation, current_step, gateway_calls,
          ret, calc, life, agg>>

\* The variables of the environment object, and the other ones.
env_vars == <<cfg, sim, reply, last_observation, current_step, gateway_calls,
              ret>>

side_vars == <<calc, life, agg>>

(***************************************************************************)
(* Bounds of the model.                                                    *)
(***************************************************************************)
MaxRequests == 3   \* reset/step requests the gateway serves in one run
MaxWaiting == 1    \* largest waiting-cloudlet count the simulator reports

(***************************************************************************)
(* Program constants.                                                      *)
(***************************************************************************)
NumActionTypes == 4        \* NoOp, AssignCloudlet, CreateVm, DestroyVm
NumVmTypes == 3            \* S, M, L
MinJobPes == 1             \* self.min_job_pes
LoadThreshold == 99        \* 0.99, in hundredths
EpsilonDen == 1000000      \* 1e-6 is 1 / EpsilonDen

NoOp == 0
AssignCloudlet == 1
CreateVm == 2
DestroyVm == 3

(***************************************************************************)
(* Helpers.                                                                *)
(***************************************************************************)
Range0(n) == 0 .. (n - 1)

Max2(a, b) == IF a >= b THEN a ELSE b

Min2(a, b) == IF a <= b THEN a ELSE b

\* ceil(a / b) for a >= 0, b > 0
CeilDiv(a, b) == (a + b - 1) \div b

\* A part of the model that takes no part in the run at hand.
Idle == [op |-> "none"]

\* A Python attribute that was never assigned.
Absent == [absent |-> TRUE]

HasAttr(x) == "absent" \notin DOMAIN x

\* list(raw)[:n] and a 0-indexed list made of n copies of v
Prefix(f, n) == [i \in Range0(n) |-> f[i]]

Filled(n, v) == [i \in Range0(n) |-> v]

Len0(f) == Cardinality(DOMAIN f)

\* dict.get(key, default)
DictGet(d, key, default) == IF key \in DOMAIN d THEN d[key] ELSE default

\* np.count_nonzero
count_nonzero(f) == Cardinality({i \in DOMAIN f : f[i] # 0})

\* x > 1e-6 for the exact fraction x
GreaterThanEpsilon(x) == x.num * EpsilonDen > x.den

Zero == [num |-> 0, den |-> 1]

One == [num |-> 1, den |-> 1]

(***************************************************************************)
(* __init__: the configuration and the spaces derived from it.             *)
(***************************************************************************)
\* The configurations of the model: two hosts of two PEs, small VMs of two
\* PEs; the queue ceiling is the default 100.0 or a large one.
Configs ==
    { [hosts_count |-> 2, host_pes |-> 2, small_vm_pes |-> 2,
       large_vm_multiplier |-> 4, max_job_pes |-> 8,
       initial_s_vm_count |-> 1, initial_m_vm_count |-> 0,
       initial_l_vm_count |-> 0, max_queue_norm |-> q] :
      q \in {100, 2000000} }

num_hosts(c) == c.hosts_count

datacenter_cores(c) == c.hosts_count * c.host_pes

\* floor(log2(n)) for n >= 1
RECURSIVE FloorLog2(_)
FloorLog2(n) == IF n < 2 THEN 0 ELSE 1 + FloorLog2(n \div 2)

\* np.ceil(q * 1.1) in binary64 for a whole q >= 1.  The double nearest to
\* 1.1 is 1.1 + 0.4 * 2^-52, so the exact product is 11q/10 + 0.4q * 2^-52.
\* When 11q/10 is not whole its ceiling is far from the rounding.  When it
\* is a whole n with 2^e <= n < 2^(e+1), the doubles around n are 2^(e-52)
\* apart and the product rounds up to the next double, and its ceiling to
\* n + 1, iff 0.4q * 2^-52 > 2^(e-53), that is 4q > 5 * 2^e (a tie rounds
\* to the even n).
CeilTimes1p1(q) ==
    IF (11 * q) % 10 # 0
    THEN CeilDiv(11 * q, 10)
    ELSE LET n == (11 * q) \div 10
         IN  IF 4 * q > 5 * (2 ^ FloorLog2(n)) THEN n + 1 ELSE n

\* The exact ceiling of 1.1 * cores / small.
CeilExact(c) == CeilDiv(11 * datacenter_cores(c), 10 * c.small_vm_pes)

\* The fallback without its minimum of 10.
max_potential_vms_no_minimum(c) ==
    IF c.hosts_count <= 0 \/ c.host_pes <= 0 \/ c.small_vm_pes <= 0
    THEN c.initial_s_vm_count + c.initial_m_vm_count + c.initial_l_vm_count
    ELSE IF datacenter_cores(c) % c.small_vm_pes = 0
         THEN CeilTimes1p1(datacenter_cores(c) \div c.small_vm_pes)
         ELSE CeilExact(c)

\* int(np.ceil((datacenter_cores / small_vm_pes) * 1.1)), or the fallback.
\* The quotient and 1.1 are doubles in the source.  The product is modelled
\* as the double product when the quotient is whole, which it is in every
\* configuration of this model (small_vm_pes divides the cores).
max_potential_vms(c) ==
    IF c.hosts_count <= 0 \/ c.host_pes <= 0 \/ c.small_vm_pes <= 0
    THEN Max2(10, c.initial_s_vm_count + c.initial_m_vm_count
                    + c.initial_l_vm_count)
    ELSE IF datacenter_cores(c) % c.small_vm_pes = 0
         THEN CeilTimes1p1(datacenter_cores(c) \div c.small_vm_pes)
         ELSE CeilExact(c)

max_potential_jobs(c) == datacenter_cores(c) \div MinJobPes

tree_array_max_len(c) ==
    2 + (2 * num_hosts(c)) + (2 * max_potential_vms(c))
      + (2 * max_potential_jobs(c))

\* self.action_space.nvec
nvec(c) == <<NumActionTypes, max_potential_vms(c), num_hosts(c), NumVmTypes>>

nvec_sum(c) == NumActionTypes + max_potential_vms(c) + num_hosts(c) + NumVmTypes

\* self.observation_space: the shape of every field
space_shape(c) ==
    [host_loads |-> num_hosts(c),
     host_ram_usage_ratio |-> num_hosts(c),
     vm_loads |-> max_potential_vms(c),
     vm_types |-> max_potential_vms(c),
     vm_host_map |-> max_potential_vms(c),
     infrastructure_observation |-> tree_array_max_len(c),
     waiting_cloudlets |-> 1,
     next_cloudlet_pes |-> 1]

max_queue_norm(c) == IF c.max_queue_norm <= 0 THEN 1 ELSE c.max_queue_norm

max_pes_norm(c) ==
    LET m == Max2(c.max_job_pes, c.small_vm_pes * c.large_vm_multiplier)
    IN  IF m <= 0 THEN 1 ELSE m

\* {key: np.zeros(space.shape) for key, space in observation_space.spaces}
dummy_obs(c) ==
    [host_loads |-> Filled(num_hosts(c), 0),
     host_ram_usage_ratio |-> Filled(num_hosts(c), 0),
     vm_loads |-> Filled(max_potential_vms(c), 0),
     vm_types |-> Filled(max_potential_vms(c), 0),
     vm_host_map |-> Filled(max_potential_vms(c), 0),
     infrastructure_observation |-> Filled(tree_array_max_len(c), 0),
     waiting_cloudlets |-> Filled(1, Zero),
     next_cloudlet_pes |-> Filled(1, Zero)]

(***************************************************************************)
(* The simulator behind the gateway (LoadBalancerGateway, Java).  Only its *)
(* interface is known: reset(seed) and step(action) answer with a result   *)
(* object carrying an ObservationState, a reward, two flags and a StepInfo,*)
(* or the call raises.                                                     *)
(***************************************************************************)
LoadLevels == {LoadThreshold - 1, LoadThreshold}

\* The tag of a VM slot that is off: -1 in the class docstring, 0 in the
\* comment of action_masks and in the bounds of the vm_types Box.
OffTags == {-1, 0}

OnTags == {1, 2, 3}

Null == [null |-> TRUE]

IsNull(x) == "null" \in DOMAIN x

OnVms(types) == {v \in DOMAIN types : types[v] > 0}

\* The simulator after reset(seed): the initial VMs of the configuration
\* occupy the first slots, the hosts are idle, the queue depends on the seed.
InitialSims(c, off) ==
    LET n == Min2(c.initial_s_vm_count + c.initial_m_vm_count
                    + c.initial_l_vm_count, max_potential_vms(c))
    IN  { [off_tag |-> off,
           host_loads |-> Filled(num_hosts(c), LoadThreshold - 1),
           host_ram |-> Filled(num_hosts(c), LoadThreshold - 1),
           vm_types |-> [v \in Range0(max_potential_vms(c)) |->
                            IF v < n THEN 1 ELSE off],
           waiting |-> w] : w \in 0 .. Min2(1, MaxWaiting) }

\* One simulated time step changes at most one thing: a host's load or RAM
\* ratio, one VM slot (created, retyped or destroyed), or the queue length.
SimNext(s) ==
    {s}
    \cup { [s EXCEPT !.host_loads[h] = l] :
             h \in DOMAIN s.host_loads, l \in LoadLevels }
    \cup { [s EXCEPT !.host_ram[h] = l] :
             h \in DOMAIN s.host_ram, l \in LoadLevels }
    \cup { [s EXCEPT !.vm_types[v] = t] :
             v \in DOMAIN s.vm_types, t \in {s.off_tag} \cup OnTags }
    \cup { [s EXCEPT !.waiting = w] : w \in 0 .. MaxWaiting }

\* The length of the raw tree array: two entries per node that exists.
NaturalTreeLen(s) ==
    2 + 2 * Len0(s.host_loads) + 2 * Cardinality(OnVms(s.vm_types))

\* The ObservationState the simulator sends for its state s.
RawSnapshot(s) ==
    [host_loads |-> s.host_loads,
     host_ram_usage_ratio |-> s.host_ram,
     vm_loads |-> [v \in DOMAIN s.vm_types |->
                      IF s.vm_types[v] > 0 THEN 50 ELSE -1],
     vm_types |-> s.vm_types,
     vm_host_map |-> [v \in DOMAIN s.vm_types |->
                         IF s.vm_types[v] > 0 THEN 0 ELSE -1],
     infrastructure_observation |->
         [i \in Range0(NaturalTreeLen(s)) |-> i + 1],
     waiting_cloudlets |-> s.waiting,
     next_cloudlet_pes |-> IF s.waiting > 0 THEN 1 ELSE 0,
     actual_vm_count |-> Cardinality(OnVms(s.vm_types)),
     actual_host_count |-> Len0(s.host_loads)]

ArrayKeys ==
    {"host_loads", "host_ram_usage_ratio", "vm_loads", "vm_types",
     "vm_host_map", "infrastructure_observation"}

\* The array f cut or extended (with ones) to n entries.
Resized(f, n) == [i \in Range0(n) |-> IF i \in DOMAIN f THEN f[i] ELSE 1]

\* The lengths a raw array may have besides the natural one: every array
\* of the snapshot has one that disagrees with its container, one entry
\* shorter or one longer; the tree array may also fill its container exactly.
LengthVariants(c) ==
    { [key |-> "host_loads", len |-> num_hosts(c) - 1],
      [key |-> "host_ram_usage_ratio", len |-> num_hosts(c) + 1],
      [key |-> "vm_loads", len |-> max_potential_vms(c) - 1],
      [key |-> "vm_types", len |-> max_potential_vms(c) + 1],
      [key |-> "vm_host_map", len |-> max_potential_vms(c) - 1],
      [key |-> "infrastructure_observation", len |-> tree_array_max_len(c)],
      [key |-> "infrastructure_observation",
       len |-> tree_array_max_len(c) + 1] }

\* The reward the simulator reports: never zero in this model.
SimReward(s) == 0 - (1 + s.waiting)

NoReply == [kind |-> "none"]

Raises == [kind |-> "raise"]

Result(obs, info_null, reward, terminated, truncated) ==
    [kind |-> "result", observation |-> obs, info_null |-> info_null,
     reward |-> reward, terminated |-> terminated, truncated |-> truncated]

\* The kinds of answer of the gateway.  "ok": a well-formed result with the
\* two flags; "raise": the call raises; "null_obs": the result carries no
\* ObservationState; "null_info": it carries no StepInfo; "length": one raw
\* array has the length len.
Mode(kind, key, len, terminated, truncated) ==
    [kind |-> kind, key |-> key, len |-> len, terminated |-> terminated,
     truncated |-> truncated]

Advance == Mode("ok", "", 0, FALSE, FALSE)

EpisodeEnds ==
    {Mode("ok", "", 0, TRUE, FALSE), Mode("ok", "", 0, FALSE, TRUE)}

FaultModes(c) ==
    {Mode("raise", "", 0, FALSE, FALSE), Mode("null_info", "", 0, FALSE, FALSE)}
    \cup { Mode("null_obs", "", 0, t, FALSE) : t \in BOOLEAN }
    \cup { Mode("length", lv.key, lv.len, FALSE, FALSE) :
             lv \in LengthVariants(c) }

\* The answer of kind m while the simulator is in state s.
Answer(s, m, reward) ==
    CASE m.kind = "raise" -> Raises
      [] m.kind = "null_obs" ->
            Result(Null, FALSE, reward, m.terminated, m.truncated)
      [] m.kind = "null_info" ->
            Result(RawSnapshot(s), TRUE, reward, m.terminated, m.truncated)
      [] m.kind = "length" ->
            Result([RawSnapshot(s) EXCEPT ![m.key] = Resized(@, m.len)],
                   FALSE, reward, m.terminated, m.truncated)
      [] OTHER ->
            Result(RawSnapshot(s), FALSE, reward, m.terminated, m.truncated)

(***************************************************************************)
(* _get_obs: the ObservationState decoded into the observation dict.       *)
(***************************************************************************)
\* min(raw / ceiling, 1.0), for a positive ceiling
Normalized(raw, ceiling) ==
    IF raw >= ceiling THEN One ELSE [num |-> raw, den |-> ceiling]

\* The five arrays whose shape _get_obs asserts.
AssertedKeys ==
    {"host_loads", "host_ram_usage_ratio", "vm_loads", "vm_types",
     "vm_host_map"}

\* The tree array handed on as it came.
infra_obs_unpadded(infra_obs_java, target_len) == infra_obs_java

\* The tree array copied into a zeroed container of the target length.
infra_obs_padded(infra_obs_java, target_len) ==
    LET len_to_copy == Min2(Len0(infra_obs_java), target_len)
    IN  [i \in Range0(target_len) |->
            IF i < len_to_copy THEN infra_obs_java[i] ELSE 0]

\* The warning never logged.
truncation_never_logged(infra_obs_java, target_len) == FALSE

\* The condition under which the truncation warning is logged.
truncation_logged(infra_obs_java, target_len) ==
    Len0(infra_obs_java) >= target_len

\* No shape is asserted.
shapes_unchecked(java_obs_state, c) == TRUE

\* The five shape assertions all pass.
shapes_asserted(java_obs_state, c) ==
    \A k \in AssertedKeys : Len0(java_obs_state[k]) = space_shape(c)[k]

\* raised: an AssertionError leaves _get_obs; otherwise obs is returned.
get_obs(java_obs_state, c) ==
    IF IsNull(java_obs_state)
    THEN [raised |-> FALSE, warned |-> FALSE, obs |-> dummy_obs(c)]
    ELSE LET target_len == space_shape(c).infrastructure_observation
             infra == java_obs_state.infrastructure_observation
         IN  [raised |-> ~shapes_asserted(java_obs_state, c),
              warned |-> truncation_logged(infra, target_len),
              obs |->
                [host_loads |-> java_obs_state.host_loads,
                 host_ram_usage_ratio |-> java_obs_state.host_ram_usage_ratio,
                 vm_loads |-> java_obs_state.vm_loads,
                 vm_types |-> java_obs_state.vm_types,
                 vm_host_map |-> java_obs_state.vm_host_map,
                 infrastructure_observation |->
                     infra_obs_padded(infra, target_len),
                 waiting_cloudlets |->
                     Filled(1, Normalized(java_obs_state.waiting_cloudlets,
                                          max_queue_norm(c))),
                 next_cloudlet_pes |->
                     Filled(1, Normalized(java_obs_state.next_cloudlet_pes,
                                          max_pes_norm(c)))]]

(***************************************************************************)
(* What reset and step hand back.  update says whether                     *)
(* _update_internal_state was reached with the observation.                *)
(***************************************************************************)
Outcome(obs, reward, terminated, truncated, error, update) ==
    [obs |-> obs, reward |-> reward, terminated |-> terminated,
     truncated |-> truncated, error |-> error, update |-> update]

\* A failed step that would leave the episode open.
step_failed_open(c) == Outcome(dummy_obs(c), 0, FALSE, FALSE, TRUE, FALSE)

\* The except branch of step.
step_failed(c) == Outcome(dummy_obs(c), 0, TRUE, FALSE, TRUE, FALSE)

\* The except branch of reset (reset returns no reward and no flags).
reset_failed(c) == Outcome(dummy_obs(c), 0, FALSE, FALSE, TRUE, FALSE)

\* The statements of the try block after the gateway call; any of them may
\* raise: the assertions of _get_obs, getInfo() of a null StepInfo, and
\* getObservation().getActualVmCount() of a null ObservationState.
try_raises(r, c) ==
    \/ r.kind = "raise"
    \/ get_obs(r.observation, c).raised
    \/ r.info_null
    \/ IsNull(r.observation)

step_try(r, c) ==
    IF try_raises(r, c)
    THEN step_failed(c)
    ELSE Outcome(get_obs(r.observation, c).obs, r.reward, r.terminated,
                 r.truncated, FALSE, TRUE)

reset_try(r, c) ==
    IF try_raises(r, c)
    THEN reset_failed(c)
    ELSE Outcome(get_obs(r.observation, c).obs, 0, FALSE, FALSE, FALSE, TRUE)

\* _update_internal_state
update_internal_state(old, out) == IF out.update THEN out.obs ELSE old

(***************************************************************************)
(* action_masks.  The four lists the method fills are held in one record;  *)
(* each rule takes the lists as the rules before it left them.             *)
(***************************************************************************)
\* self.last_observation is None
PyNone == [none |-> TRUE]

IsNone(x) == "none" \in DOMAIN x

\* lst[i] = True
SetTrue(lst, i) == [lst EXCEPT ![i] = TRUE]

\* any(lst)
AnyTrue(lst) == \E i \in DOMAIN lst : lst[i]

\* The lists as initialised: only NoOp enabled.
initial_masks(c) ==
    [action_type_mask |-> [i \in Range0(NumActionTypes) |-> i = NoOp],
     vm_id_mask |-> Filled(max_potential_vms(c), FALSE),
     host_id_mask |-> Filled(num_hosts(c), FALSE),
     vm_type_mask |-> Filled(NumVmTypes, FALSE)]

\* The scalar waiting_cloudlets read from the observation.
waiting_cloudlets_of(obs) == obs.waiting_cloudlets[0]

\* last_observation.get('actual_vm_count', np.count_nonzero(vm_types))
actual_vm_count_of(obs) ==
    DictGet(obs, "actual_vm_count", count_nonzero(obs.vm_types))

\* Assign enabled on the queue alone, without looking for an active slot.
assign_rule_on_queue(m, obs, c) ==
    IF GreaterThanEpsilon(waiting_cloudlets_of(obs))
    THEN [action_type_mask |->
              [m.action_type_mask EXCEPT ![AssignCloudlet] = TRUE],
          vm_id_mask |->
              [v \in DOMAIN m.vm_id_mask |->
                  m.vm_id_mask[v] \/ obs.vm_types[v] > 0],
          host_id_mask |-> SetTrue(m.host_id_mask, 0),
          vm_type_mask |-> SetTrue(m.vm_type_mask, 0)]
    ELSE m

\* 1. Assign Cloudlet
assign_rule(m, obs, c) ==
    LET can_assign == GreaterThanEpsilon(waiting_cloudlets_of(obs))
        active == {v \in Range0(max_potential_vms(c)) : obs.vm_types[v] > 0}
        legal == can_assign /\ active # {}
    IN  IF ~can_assign THEN m
        ELSE [action_type_mask |->
                  [m.action_type_mask EXCEPT ![AssignCloudlet] = legal],
              vm_id_mask |->
                  [v \in DOMAIN m.vm_id_mask |->
                      m.vm_id_mask[v] \/ v \in active],
              host_id_mask |->
                  IF legal THEN SetTrue(m.host_id_mask, 0)
                  ELSE m.host_id_mask,
              vm_type_mask |->
                  IF legal THEN SetTrue(m.vm_type_mask, 0)
                  ELSE m.vm_type_mask]

\* 2. Create VM
create_rule(m, obs, c) ==
    LET can_potentially_create ==
            actual_vm_count_of(obs) < max_potential_vms(c)
        suitable == {h \in Range0(num_hosts(c)) :
                        /\ obs.host_loads[h] < LoadThreshold
                        /\ obs.host_ram_usage_ratio[h] < LoadThreshold}
    IN  IF ~can_potentially_create THEN m
        ELSE IF suitable # {}
        THEN [action_type_mask |->
                  [m.action_type_mask EXCEPT ![CreateVm] = TRUE],
              vm_id_mask |-> SetTrue(m.vm_id_mask, 0),
              host_id_mask |->
                  [h \in DOMAIN m.host_id_mask |->
                      m.host_id_mask[h] \/ h \in suitable],
              vm_type_mask |-> Filled(NumVmTypes, TRUE)]
        ELSE [action_type_mask |->
                  [m.action_type_mask EXCEPT ![CreateVm] = FALSE],
              vm_id_mask |-> m.vm_id_mask,
              host_id_mask |-> SetTrue(m.host_id_mask, 0),
              vm_type_mask |-> SetTrue(m.vm_type_mask, 0)]

\* Destroy enabled on the count alone, without looking for an active slot.
destroy_rule_on_count(m, obs, c) ==
    IF actual_vm_count_of(obs) > 0
    THEN [action_type_mask |-> [m.action_type_mask EXCEPT ![DestroyVm] = TRUE],
          vm_id_mask |-> m.vm_id_mask,
          host_id_mask |-> SetTrue(m.host_id_mask, 0),
          vm_type_mask |-> SetTrue(m.vm_type_mask, 0)]
    ELSE m

\* 3. Destroy VM
destroy_rule(m, obs, c) ==
    LET can_destroy == actual_vm_count_of(obs) > 0
        active == {v \in Range0(max_potential_vms(c)) : obs.vm_types[v] > 0}
        legal == active # {}
    IN  IF ~can_destroy THEN m
        ELSE [action_type_mask |->
                  [m.action_type_mask EXCEPT ![DestroyVm] = legal],
              vm_id_mask |->
                  [v \in DOMAIN m.vm_id_mask |->
                      m.vm_id_mask[v] \/ v \in active],
              host_id_mask |->
                  IF legal THEN SetTrue(m.host_id_mask, 0)
                  ELSE m.host_id_mask,
              vm_type_mask |->
                  IF legal THEN SetTrue(m.vm_type_mask, 0)
                  ELSE m.vm_type_mask]

\* The lists left as the three rules filled them.
dummy_rule_skipped(m) == m

\* Every target enabled when NoOp alone is legal.
dummy_rule_enables_all(m) ==
    IF \E t \in DOMAIN m.action_type_mask : t # NoOp /\ m.action_type_mask[t]
    THEN dummy_rule_skipped(m)
    ELSE [action_type_mask |-> m.action_type_mask,
          vm_id_mask |-> [v \in DOMAIN m.vm_id_mask |-> TRUE],
          host_id_mask |-> [h \in DOMAIN m.host_id_mask |-> TRUE],
          vm_type_mask |-> [t \in DOMAIN m.vm_type_mask |-> TRUE]]

\* A dummy value for every component no rule enabled anything in.
dummy_rule(m) ==
    IF \E t \in DOMAIN m.action_type_mask : t # NoOp /\ m.action_type_mask[t]
    THEN [action_type_mask |-> m.action_type_mask,
          vm_id_mask |-> IF ~AnyTrue(m.vm_id_mask) THEN SetTrue(m.vm_id_mask, 0)
                         ELSE m.vm_id_mask,
          host_id_mask |-> IF ~AnyTrue(m.host_id_mask)
                           THEN SetTrue(m.host_id_mask, 0)
                           ELSE m.host_id_mask,
          vm_type_mask |-> IF ~AnyTrue(m.vm_type_mask)
                           THEN SetTrue(m.vm_type_mask, 0)
                           ELSE m.vm_type_mask]
    ELSE [action_type_mask |-> m.action_type_mask,
          vm_id_mask |-> SetTrue(m.vm_id_mask, 0),
          host_id_mask |-> SetTrue(m.host_id_mask, 0),
          vm_type_mask |-> SetTrue(m.vm_type_mask, 0)]

\* action_type_mask + vm_id_mask + host_id_mask + vm_type_mask
final_mask(m) ==
    LET a == Len0(m.action_type_mask)
        v == Len0(m.vm_id_mask)
        h == Len0(m.host_id_mask)
        t == Len0(m.vm_type_mask)
    IN  [i \in Range0(a + v + h + t) |->
            IF i < a THEN m.action_type_mask[i]
            ELSE IF i < a + v THEN m.vm_id_mask[i - a]
            ELSE IF i < a + v + h THEN m.host_id_mask[i - a - v]
            ELSE m.vm_type_mask[i - a - v - h]]

\* The mask returned while last_observation is None.
noop_only_mask(c) ==
    [i \in Range0(nvec_sum(c)) |->
        i \in {0, 4, 4 + max_potential_vms(c),
               4 + max_potential_vms(c) + num_hosts(c)}]

\* The method, on the value of self.last_observation.
action_masks(obs, c) ==
    IF IsNone(obs) THEN noop_only_mask(c)
    ELSE LET m == dummy_rule(
                    destroy_rule(
                      create_rule(
                        assign_rule(initial_masks(c), obs, c), obs, c),
                      obs, c))
             flat == final_mask(m)
         IN  IF Len0(flat) # nvec_sum(c)
             THEN Filled(nvec_sum(c), TRUE)
             ELSE flat

(***************************************************************************)
(* The calls on the environment.                                           *)
(***************************************************************************)
\* What a call gave its caller: it raised, or it returned the observation,
\* reward, flags and info of reset/step, or the mask of action_masks.
\* requests counts the reset/step requests the call sent to the gateway.
Returned(op, out, requests) ==
    [op |-> op, raised |-> FALSE, obs |-> out.obs, reward |-> out.reward,
     terminated |-> out.terminated, truncated |-> out.truncated,
     error |-> out.error, requests |-> requests, mask |-> <<>>]

Raised(op) ==
    [op |-> op, raised |-> TRUE, obs |-> Null, reward |-> 0,
     terminated |-> FALSE, truncated |-> FALSE, error |-> FALSE,
     requests |-> 0, mask |-> <<>>]

ReturnedMask(mask) ==
    [op |-> "action_masks", raised |-> FALSE, obs |-> Null, reward |-> 0,
     terminated |-> FALSE, truncated |-> FALSE, error |-> FALSE,
     requests |-> 0, mask |-> mask]

NoCall == [Raised("none") EXCEPT !.raised = FALSE]

\* The state after __init__ returned: connected and configured, spaces
\* and normalisation factors set, neither last_observation nor
\* current_step assigned.
Init ==
    /\ cfg \in Configs
    /\ sim \in UNION { InitialSims(cfg, off) : off \in OffTags }
    /\ reply = NoReply
    /\ last_observation = Absent
    /\ current_step = Absent
    /\ gateway_calls = 0
    /\ ret = NoCall
    /\ calc = Idle
    /\ life = Idle
    /\ agg = Idle

\* reset(seed): one request to the gateway; the simulator starts over.
Reset ==
    /\ gateway_calls < MaxRequests
    /\ \E s2 \in InitialSims(cfg, sim.off_tag), m \in {Advance} \cup FaultModes(cfg) :
        LET r == Answer(s2, m, 0)
            out == reset_try(r, cfg)
        IN  /\ sim' = s2
            /\ reply' = r
            /\ current_step' = [value |-> 0]
            /\ gateway_calls' = gateway_calls + 1
            /\ last_observation' = update_internal_state(last_observation, out)
            /\ ret' = Returned("reset", out, gateway_calls' - gateway_calls)
            /\ UNCHANGED <<cfg, side_vars>>

\* step(action) on an environment that was never reset: current_step += 1
\* raises AttributeError outside the try block.
StepBeforeReset ==
    /\ ~HasAttr(current_step)
    /\ ret' = Raised("step")
    /\ UNCHANGED <<cfg, sim, reply, last_observation, current_step,
                   gateway_calls, side_vars>>

\* step(action): one request to the gateway.  The action is passed on
\* unchanged; what the simulator makes of it is part of its answer: it
\* advances and reports, or reports the end of the episode, or the answer
\* is faulty.
Step ==
    /\ HasAttr(current_step)
    /\ gateway_calls < MaxRequests
    /\ \E m \in {Advance} \cup EpisodeEnds \cup FaultModes(cfg) :
       \E s2 \in IF m = Advance THEN SimNext(sim) ELSE {sim} :
        LET r == Answer(s2, m, SimReward(s2))
            out == step_try(r, cfg)
        IN  /\ sim' = s2
            /\ reply' = r
            /\ current_step' = [value |-> current_step.value + 1]
            /\ gateway_calls' = gateway_calls + 1
            /\ last_observation' = update_internal_state(last_observation, out)
            /\ ret' = Returned("step", out, gateway_calls' - gateway_calls)
            /\ UNCHANGED <<cfg, side_vars>>

\* action_masks() while self.last_observation does not exist: the test
\* "self.last_observation is None" raises AttributeError.
ActionMasksUnset ==
    /\ ~HasAttr(last_observation)
    /\ ret' = Raised("action_masks")
    /\ UNCHANGED <<cfg, sim, reply, last_observation, current_step,
                   gateway_calls, side_vars>>

\* action_masks()
ActionMasks ==
    /\ HasAttr(last_observation)
    /\ ret' = ReturnedMask(action_masks(last_observation, cfg))
    /\ UNCHANGED <<cfg, sim, reply, last_observation, current_step,
                   gateway_calls, side_vars>>

Next ==
    \/ Reset
    \/ StepBeforeReset
    \/ Step
    \/ ActionMasksUnset
    \/ ActionMasks

Spec == Init /\ [][Next]_vars

(***************************************************************************)
(* Reading a returned mask and the answer it was computed from.            *)
(***************************************************************************)
\* A mask was returned by the last call.
MaskReturned == ret.op = "action_masks" /\ ~ret.raised

\* The four segments of a flat mask.
ActionTypeBit(mask, t) == mask[t]

VmIdBit(mask, c, v) == mask[NumActionTypes + v]

HostIdBit(mask, c, h) == mask[NumActionTypes + max_potential_vms(c) + h]

VmTypeBit(mask, c, t) ==
    mask[NumActionTypes + max_potential_vms(c) + num_hosts(c) + t]

\* The last answer of the gateway was decoded and stored: last_observation
\* is the decoding of reply.observation.
SnapshotStored == reply.kind = "result" /\ ~try_raises(reply, cfg)

\* The last call was a step that reached the gateway.
StepAnswered == ret.op = "step" /\ ~ret.raised /\ reply.kind # "none"

SomeVmOn(types) == \E v \in DOMAIN types : types[v] > 0

HostFree(loads, rams, h) == loads[h] < LoadThreshold /\ rams[h] < LoadThreshold

\* The last answer carried a snapshot and a StepInfo, and the raw array k of
\* the snapshot disagrees in length with its container.
LengthDisagrees(k) ==
    /\ reply.kind = "result"
    /\ ~IsNull(reply.observation)
    /\ ~reply.info_null
    /\ Len0(reply.observation[k]) # space_shape(cfg)[k]

\* The raw array f truncated or zero-padded to n entries.
Reshaped(f, n) == [i \in Range0(n) |-> IF i \in DOMAIN f THEN f[i] ELSE 0]

(***************************************************************************)
(* C1.  Every mask returned by action_masks has at least one true entry in *)
(* each of its four segments: action type, VM id, host id, VM type.        *)
(***************************************************************************)
C1_MaskNonEmpty ==
    MaskReturned =>
        /\ \E t \in Range0(NumActionTypes) : ActionTypeBit(ret.mask, t)
        /\ \E v \in Range0(max_potential_vms(cfg)) : VmIdBit(ret.mask, cfg, v)
        /\ \E h \in Range0(num_hosts(cfg)) : HostIdBit(ret.mask, cfg, h)
        /\ \E t \in Range0(NumVmTypes) : VmTypeBit(ret.mask, cfg, t)

\* A mask computed after a step from a snapshot without any VM in which
\* no rule enables anything: only the final dummy rule fills the three
\* target segments.
C1_Witness ==
    /\ MaskReturned
    /\ SnapshotStored
    /\ current_step.value > 0
    /\ ~SomeVmOn(last_observation.vm_types)
    /\ \A t \in Range0(NumActionTypes) :
          ActionTypeBit(ret.mask, t) <=> t = NoOp

(***************************************************************************)
(* C2.  action_masks called while no observation was ever stored (before   *)
(* any reset, or after a first reset that failed) returns, without         *)
(* raising, the mask that enables NoOp and index 0 of the other segments.  *)
(***************************************************************************)
C2_MaskBeforeFirstObservation ==
    (ret.op = "action_masks" /\ ~HasAttr(last_observation)) =>
        /\ ~ret.raised
        /\ ret.mask = noop_only_mask(cfg)

(***************************************************************************)
(* C3.  When the gateway's step request raises, step sends no second       *)
(* request, raises nothing and returns the all-zero observation, reward 0, *)
(* terminated = true, truncated = false and an info with the error flag.   *)
(***************************************************************************)
C3_StepFailureSynthesized ==
    (ret.op = "step" /\ reply.kind = "raise") =>
        /\ ~ret.raised
        /\ ret.requests = 1
        /\ ret.obs = dummy_obs(cfg)
        /\ ret.reward = 0
        /\ ret.terminated
        /\ ~ret.truncated
        /\ ret.error

\* A step whose request raised, after an observation had been stored.
C3_Witness ==
    /\ ret.op = "step"
    /\ reply.kind = "raise"
    /\ HasAttr(last_observation)

(***************************************************************************)
(* C4.  When the gateway answers a step with a result whose snapshot is    *)
(* null, step returns the all-zero observation and the terminated and      *)
(* truncated flags the simulator reported.                                 *)
(***************************************************************************)
C4_NullSnapshotContinues ==
    (/\ StepAnswered
     /\ reply.kind = "result"
     /\ IsNull(reply.observation)
     /\ ~reply.info_null) =>
        /\ ret.obs = dummy_obs(cfg)
        /\ ret.terminated = reply.terminated
        /\ ret.truncated = reply.truncated

C6_ObservationShape ==
    (ret.op \in {"reset", "step"} /\ ~ret.raised) =>
        \A k \in DOMAIN space_shape(cfg) :
            Len0(ret.obs[k]) = space_shape(cfg)[k]

\* A step on the success path whose raw tree array was longer than the
\* container.
C6_Witness ==
    /\ StepAnswered
    /\ ~ret.error
    /\ reply.kind = "result"
    /\ Len0(reply.observation.infrastructure_observation)
          > tree_array_max_len(cfg)

(***************************************************************************)
(* C7.  The Assign bit of a mask is true iff the waiting-cloudlet count of *)
(* the snapshot, before normalisation, exceeds the epsilon and at least    *)
(* one VM slot has an on type tag.                                         *)
(***************************************************************************)
C7_AssignLegality ==
    (MaskReturned /\ SnapshotStored) =>
        (ActionTypeBit(ret.mask, AssignCloudlet) <=>
            /\ reply.observation.waiting_cloudlets * EpsilonDen > 1
            /\ SomeVmOn(reply.observation.vm_types))

(***************************************************************************)
(* C8.  The Create bit of a mask is true iff the actual VM count of the    *)
(* snapshot is below max_potential_vms and at least one host has load and  *)
(* RAM ratio both below 0.99.                                              *)
(***************************************************************************)
C8_CreateLegality ==
    (MaskReturned /\ SnapshotStored) =>
        (ActionTypeBit(ret.mask, CreateVm) <=>
            /\ reply.observation.actual_vm_count < max_potential_vms(cfg)
            /\ \E h \in Range0(num_hosts(cfg)) :
                  HostFree(reply.observation.host_loads,
                           reply.observation.host_ram_usage_ratio, h))

(***************************************************************************)
(* C9.  The Destroy bit of a mask is true iff the actual VM count of the   *)
(* snapshot is greater than zero.                                          *)
(***************************************************************************)
C9_DestroyLegality ==
    (MaskReturned /\ SnapshotStored) =>
        (ActionTypeBit(ret.mask, DestroyVm) <=>
            reply.observation.actual_vm_count > 0)

\* A mask for a snapshot without any VM whose slots hold the sentinel -1:
\* the count of nonzero type tags is positive and Destroy is illegal.
C9_Witness ==
    /\ MaskReturned
    /\ SnapshotStored
    /\ reply.observation.actual_vm_count = 0
    /\ count_nonzero(last_observation.vm_types) > 0
    /\ ~ActionTypeBit(ret.mask, DestroyVm)

(***************************************************************************)
(* C10.  Whenever Assign or Destroy is legal in a mask, every enabled      *)
(* VM-id slot holds a VM whose type tag is on.                             *)
(***************************************************************************)
C10_VmTargetsAreOn ==
    (/\ MaskReturned
     /\ \/ ActionTypeBit(ret.mask, AssignCloudlet)
        \/ ActionTypeBit(ret.mask, DestroyVm)) =>
        \A v \in Range0(max_potential_vms(cfg)) :
            VmIdBit(ret.mask, cfg, v) => last_observation.vm_types[v] > 0

(***************************************************************************)
(* C11.  Whenever Create is legal in a mask, a host-id slot is enabled iff *)
(* that host has load ratio and RAM ratio both below 0.99, whichever other *)
(* action types are legal in the same mask.                                *)
(***************************************************************************)
C11_HostTargetsAreFree ==
    (MaskReturned /\ ActionTypeBit(ret.mask, CreateVm)) =>
        \A h \in Range0(num_hosts(cfg)) :
            HostIdBit(ret.mask, cfg, h) <=>
                HostFree(last_observation.host_loads,
                         last_observation.host_ram_usage_ratio, h)

\* The observation the last reset or step call handed to its caller: the
\* decoded answer of the gateway, or the zero observation of a failed call.
LastReturnedObs == step_try(reply, cfg).obs

(***************************************************************************)
(* C12.  After a reset or step call returned, failed calls included, the   *)
(* mask action_masks returns is the mask of the observation that call      *)
(* returned, never one computed from an earlier snapshot.                  *)
(***************************************************************************)
C12_MaskOfReturnedObservation ==
    /\ (ret.op \in {"reset", "step"} /\ ~ret.raised) =>
          ret.obs = LastReturnedObs
    /\ (MaskReturned /\ reply.kind # "none") =>
          ret.mask = action_masks(LastReturnedObs, cfg)

(***************************************************************************)
(* _get_obs and the sizing of __init__ on their own: every run applies one *)
(* of them once, to inputs drawn from the sets below, and keeps the result.*)
(***************************************************************************)
MaxExtraTree == 2      \* entries a raw tree array may exceed its container by
MaxRawScalar == 2      \* largest raw waiting count and PE demand
MaxHostsCount == 25    \* largest hosts_count sized
MaxHostPes == 16       \* largest host_pes sized
MaxSmallVmPes == 2     \* largest small_vm_pes sized
MaxLbVms == 3          \* VMs of the load-balancing-only variant

\* No environment object takes part.
NoEnv ==
    /\ cfg = Absent
    /\ sim = Absent
    /\ reply = NoReply
    /\ last_observation = Absent
    /\ current_step = Absent
    /\ gateway_calls = 0
    /\ ret = NoCall

BaseConfig == CHOOSE c \in Configs : c.max_queue_norm = 100

\* The ceilings a configuration may carry, zero and negative ones included.
CeilingConfigs ==
    { [BaseConfig EXCEPT !.max_queue_norm = q, !.max_job_pes = j,
                         !.large_vm_multiplier = m] :
        q \in {-5, 0, 1, 100}, j \in {-1, 0, 8}, m \in {-1, 0, 4} }

\* The configurations with positive counts in which small VMs fill the
\* cores exactly.
ShapeConfigs ==
    { c \in { [BaseConfig EXCEPT !.hosts_count = h, !.host_pes = p,
                                 !.small_vm_pes = s] :
                h \in 1 .. MaxHostsCount, p \in 1 .. MaxHostPes,
                s \in 1 .. MaxSmallVmPes } :
        datacenter_cores(c) % c.small_vm_pes = 0 }

\* The raw scalars the simulator may send, a negative one included.
RawScalars == -1 .. MaxRawScalar

\* _get_obs on a snapshot whose tree array has n entries.
DecodeTree ==
    /\ calc = Idle
    /\ \E s \in InitialSims(BaseConfig, 0),
          n \in 0 .. (tree_array_max_len(BaseConfig) + MaxExtraTree) :
        LET raw == [RawSnapshot(s) EXCEPT
                       !.infrastructure_observation =
                           [i \in Range0(n) |-> i + 1]]
        IN  calc' = [op |-> "decode_tree", config |-> BaseConfig,
                     raw |-> raw, result |-> get_obs(raw, BaseConfig)]
    /\ UNCHANGED <<env_vars, life, agg>>

\* _get_obs on a snapshot with the raw scalars w and p, under the ceilings
\* of c.
DecodeScalars ==
    /\ calc = Idle
    /\ \E c \in CeilingConfigs, s \in InitialSims(BaseConfig, 0),
          w \in RawScalars, p \in RawScalars :
        LET raw == [RawSnapshot(s) EXCEPT !.waiting_cloudlets = w,
                                          !.next_cloudlet_pes = p]
        IN  calc' = [op |-> "decode_scalars", config |-> c, raw |-> raw,
                     result |-> get_obs(raw, c)]
    /\ UNCHANGED <<env_vars, life, agg>>

\* The sizes __init__ derives from the configuration c.
DeriveShape ==
    /\ calc = Idle
    /\ \E c \in ShapeConfigs :
        calc' = [op |-> "shape", config |-> c,
                 max_potential_vms |-> max_potential_vms(c),
                 max_potential_jobs |-> max_potential_jobs(c),
                 tree_array_max_len |-> tree_array_max_len(c)]
    /\ UNCHANGED <<env_vars, life, agg>>

\* The configurations in which hosts_count, host_pes or small_vm_pes is zero
\* or negative, with few and with many initial VMs.
DegenerateConfigs ==
    { c \in { [BaseConfig EXCEPT !.hosts_count = h, !.host_pes = p,
                                 !.small_vm_pes = s,
                                 !.initial_s_vm_count = vs,
                                 !.initial_m_vm_count = vm] :
                h \in {-1, 0, 2}, p \in {-1, 0, 2}, s \in {-1, 0, 2},
                vs \in {0, 1, 12}, vm \in {0, 3} } :
        c.hosts_count <= 0 \/ c.host_pes <= 0 \/ c.small_vm_pes <= 0 }

\* max_potential_vms as __init__ derives it from a degenerate configuration.
DeriveDegenerate ==
    /\ calc = Idle
    /\ \E c \in DegenerateConfigs :
        calc' = [op |-> "shape_degenerate", config |-> c,
                 max_potential_vms |-> max_potential_vms(c)]
    /\ UNCHANGED <<env_vars, life, agg>>

\* The available PEs of a VM and the PEs of the next cloudlet in the
\* load-balancing-only variant, and its waiting counts.
LbPes == {0, 2, 4, 8}

LbWaiting == {0, 1, 5}

\* The mask with a VM index enabled only when the VM has more PEs than the
\* cloudlet asks for.
lb_mask_strict(waiting_cloudlets, next_cloudlet_pes, available_pes) ==
    LET n == Len(available_pes)
        fits(v) == available_pes[v] > next_cloudlet_pes
    IN  IF waiting_cloudlets = 0 \/ next_cloudlet_pes = 0
        THEN [i \in 0 .. n |-> i = 0]
        ELSE IF \E v \in 1 .. n : fits(v)
        THEN [i \in 0 .. n |-> i >= 1 /\ fits(i)]
        ELSE [i \in 0 .. n |-> i >= 1]

\* The mask of the load-balancing-only variant over the indices 0 .. n for n
\* VMs: index 0 is "no assignment", index v is VM v - 1, whose available PEs
\* are available_pes[v].
lb_mask(waiting_cloudlets, next_cloudlet_pes, available_pes) ==
    LET n == Len(available_pes)
        fits(v) == available_pes[v] >= next_cloudlet_pes
    IN  IF waiting_cloudlets = 0 \/ next_cloudlet_pes = 0
        THEN [i \in 0 .. n |-> i = 0]
        ELSE IF \E v \in 1 .. n : fits(v)
        THEN [i \in 0 .. n |-> i >= 1 /\ fits(i)]
        ELSE [i \in 0 .. n |-> i >= 1]

\* The mask of the load-balancing-only variant for a snapshot.
MaskLoadBalancing ==
    /\ calc = Idle
    /\ \E n \in 1 .. MaxLbVms, w \in LbWaiting, p \in LbPes :
        \E available_pes \in [1 .. n -> LbPes] :
            calc' = [op |-> "lb_mask", waiting_cloudlets |-> w,
                     next_cloudlet_pes |-> p,
                     available_pes |-> available_pes,
                     mask |-> lb_mask(w, p, available_pes)]
    /\ UNCHANGED <<env_vars, life, agg>>

InitCalc ==
    /\ NoEnv
    /\ calc = Idle
    /\ life = Idle
    /\ agg = Idle

NextCalc ==
    \/ DecodeTree
    \/ DecodeScalars
    \/ DeriveShape
    \/ DeriveDegenerate
    \/ MaskLoadBalancing

SpecCalc == InitCalc /\ [][NextCalc]_vars

\* The number of truncation warnings the decoding logged.
TruncationReports(result) == IF result.warned THEN 1 ELSE 0

(***************************************************************************)
(* C13.  Decoding the raw tree array: a raw array shorter than the target  *)
(* is copied in order, the rest is zero and no truncation is reported; a   *)
(* raw array longer than the target gives its first target-length entries  *)
(* and truncation is reported exactly once.                                *)
(***************************************************************************)
C13_TreeDecoding ==
    calc.op = "decode_tree" =>
        LET raw == calc.raw.infrastructure_observation
            out == calc.result.obs.infrastructure_observation
            target == tree_array_max_len(calc.config)
        IN  /\ ~calc.result.raised
            /\ Len0(out) = target
            /\ Len0(raw) < target =>
                  /\ \A i \in Range0(target) :
                        out[i] = IF i < Len0(raw) THEN raw[i] ELSE 0
                  /\ TruncationReports(calc.result) = 0
            /\ Len0(raw) > target =>
                  /\ \A i \in Range0(target) : out[i] = raw[i]
                  /\ TruncationReports(calc.result) = 1

\* A decoding of a raw tree array longer than its container.
C13_Witness ==
    /\ calc.op = "decode_tree"
    /\ Len0(calc.raw.infrastructure_observation)
          > tree_array_max_len(calc.config)
    /\ calc.result.warned

\* The fraction x lies in [0, 1].
InUnitInterval(x) == x.den > 0 /\ 0 <= x.num /\ x.num <= x.den

(***************************************************************************)
(* C14.  For every raw waiting count and PE demand, negative ones and ones *)
(* above the ceiling included, and every configured ceiling, zero and      *)
(* negative ones included, the decoded normalised scalars lie in [0, 1].   *)
(***************************************************************************)
C14_ScalarsInUnitInterval ==
    calc.op = "decode_scalars" =>
        /\ InUnitInterval(calc.result.obs.waiting_cloudlets[0])
        /\ InUnitInterval(calc.result.obs.next_cloudlet_pes[0])

(***************************************************************************)
(* C15.  For every configuration with positive host count, host PEs and    *)
(* small-VM PEs: max_potential_vms is the ceiling of 1.1 * cores / small,  *)
(* max_potential_jobs is cores / min_job_pes, the tree length is           *)
(* 2 + 2*hosts + 2*max_potential_vms + 2*max_potential_jobs; 8 hosts of 16 *)
(* PEs with small VMs of 2 PEs give 71 and 416.                            *)
(***************************************************************************)
C15_DerivedShape ==
    calc.op = "shape" =>
        LET c == calc.config
        IN  /\ calc.max_potential_vms = CeilExact(c)
            /\ calc.max_potential_jobs = (c.hosts_count * c.host_pes) \div MinJobPes
            /\ calc.tree_array_max_len =
                  2 + 2 * c.hosts_count + 2 * calc.max_potential_vms
                    + 2 * calc.max_potential_jobs
            /\ (c.hosts_count = 8 /\ c.host_pes = 16 /\ c.small_vm_pes = 2) =>
                  /\ calc.max_potential_vms = 71
                  /\ calc.tree_array_max_len = 416

(***************************************************************************)
(* The gateway connection: the handshake and configureSimulation of        *)
(* __init__, the requests of a constructed environment, and close.  The    *)
(* JVM side answers each request with success or an exception.             *)
(***************************************************************************)
Retries == 5           \* retries = 5

MaxLifeRequests == 2   \* reset/step requests issued in one run
MaxCloses == 2         \* close() calls made by the caller in one run

\* No call on the object has finished yet.
NoLast ==
    [op |-> "none", raised |-> FALSE, sent_close |-> 0, sent_shutdown |-> 0,
     was_closed |-> FALSE, logged_error |-> FALSE]

\* __init__ at the head of its retry loop.  pc: "connecting" (in the loop),
\* "configuring" (past it), "ready" (__init__ returned), "failed" (__init__
\* raised: the caller holds no object).  gateway and loadbalancer_gateway
\* say whether the attribute of that name is set, and so does
\* java_gateway_entry_point, which render reads and no method assigns.
\* render_mode is the argument of __init__ ("none" for None).
Connecting ==
    [pc |-> "connecting", retries |-> Retries, attempts |-> 0,
     gateway |-> FALSE, loadbalancer_gateway |-> FALSE, cause |-> "none",
     java_gateway_entry_point |-> FALSE, render_mode |-> "ansi",
     configure_calls |-> 0, close_requests |-> 0, shutdown_requests |-> 0,
     requests |-> 0, closes |-> 0, last |-> NoLast]

\* No raise while retries are left.
never_exhausted(retries) == FALSE

\* if retries == 0: raise
exhausted(retries) == retries = 0

\* close(): the Java side is asked to close when loadbalancer_gateway is set
\* (an exception of that request is logged and dropped), then the client is
\* shut down when gateway is set (an exception of shutdown leaves close).
\* Neither attribute is changed.
close(l, close_raises, shutdown_raises) ==
    LET sends_close == IF l.loadbalancer_gateway THEN 1 ELSE 0
        sends_shutdown == IF l.gateway THEN 1 ELSE 0
    IN  [l EXCEPT !.close_requests = @ + sends_close,
                  !.shutdown_requests = @ + sends_shutdown,
                  !.closes = @ + 1,
                  !.last = [op |-> "close",
                            raised |-> sends_shutdown = 1 /\ shutdown_raises,
                            sent_close |-> sends_close,
                            sent_shutdown |-> sends_shutdown,
                            was_closed |-> l.closes > 0,
                            logged_error |-> sends_close = 1 /\ close_raises]]

\* __init__ raising with what it leaves behind.
init_raised(l, cause) == [l EXCEPT !.pc = "failed", !.cause = cause]

\* The except branch of the configure block without its self.close().
configure_failed_unclosed(l, close_raises, shutdown_raises) ==
    init_raised(l, "configure")

\* The except branch of the configure block: self.close(), then raise.
configure_failed(l, close_raises, shutdown_raises) ==
    init_raised(close(l, close_raises, shutdown_raises), "configure")

\* One pass of the retry loop: JavaGateway(...) and the println test.
Connect ==
    /\ life.pc = "connecting"
    /\ life.retries > 0
    /\ \E outcome \in {"ok", "connection_error", "other_error"} :
        LET tried == [life EXCEPT !.attempts = @ + 1, !.gateway = TRUE]
            left == life.retries - 1
        IN  life' =
              CASE outcome = "ok" ->
                     [tried EXCEPT !.loadbalancer_gateway = TRUE,
                                   !.pc = "configuring"]
                [] outcome = "connection_error" ->
                     IF exhausted(left)
                     THEN init_raised([tried EXCEPT !.retries = left],
                                      "connection")
                     ELSE [tried EXCEPT
                             !.retries = left,
                             !.pc = IF left > 0 THEN "connecting"
                                    ELSE "configuring"]
                [] OTHER -> init_raised(tried, "other")
    /\ UNCHANGED <<env_vars, calc, agg>>

\* The configure block of __init__: the parameters are put into a Java map
\* and configureSimulation is called once; any exception closes and raises.
Configure ==
    /\ life.pc = "configuring"
    /\ \E outcome \in {"ok", "rejected", "map_error"},
          close_raises \in BOOLEAN, shutdown_raises \in BOOLEAN :
        LET called == [life EXCEPT !.configure_calls = @ + 1]
        IN  life' =
              IF ~life.loadbalancer_gateway \/ outcome = "map_error"
              THEN configure_failed(life, close_raises, shutdown_raises)
              ELSE IF outcome = "rejected"
              THEN configure_failed(called, close_raises, shutdown_raises)
              ELSE [called EXCEPT !.pc = "ready"]
    /\ UNCHANGED <<env_vars, calc, agg>>

\* reset or step of a constructed environment: one request on the gateway.
Request ==
    /\ life.pc = "ready"
    /\ life.requests < MaxLifeRequests
    /\ life' = [life EXCEPT !.requests = @ + 1,
                            !.last = [NoLast EXCEPT !.op = "request"]]
    /\ UNCHANGED <<env_vars, calc, agg>>

\* close() called on a constructed environment.
Close ==
    /\ life.pc = "ready"
    /\ life.closes < MaxCloses
    /\ \E close_raises \in BOOLEAN, shutdown_raises \in BOOLEAN :
        life' = close(life, close_raises, shutdown_raises)
    /\ UNCHANGED <<env_vars, calc, agg>>

\* None and metadata["render_modes"]
RenderModes == {"none", "human", "ansi"}

\* render(): nothing without a render mode; otherwise getRenderInfo is
\* requested, the JSON view is read through self.java_gateway_entry_point,
\* and the view is printed between two separator lines (human: pformat
\* builds the text, which is not printed) or returned (ansi).  Any exception
\* on the way becomes an error message, printed (human) or returned (ansi).
render(l, answers) ==
    LET result(returned, printed) ==
            [op |-> "render", raised |-> FALSE, answered |-> answers,
             returned |-> returned, printed |-> printed]
    IN  [l EXCEPT !.last =
            IF l.render_mode = "none" THEN result("None", "nothing")
            ELSE IF ~answers \/ ~l.java_gateway_entry_point
            THEN IF l.render_mode = "human"
                 THEN result("None", "error message")
                 ELSE result("error message", "nothing")
            ELSE IF l.render_mode = "human"
                 THEN result("None", "separators")
                 ELSE result("view", "nothing")]

\* render() called on a constructed environment; a closed gateway does not
\* answer.
Render ==
    /\ life.pc = "ready"
    /\ \E answers \in BOOLEAN :
        /\ life.closes > 0 => ~answers
        /\ life' = render(life, answers)
    /\ UNCHANGED <<env_vars, calc, agg>>

InitLife ==
    /\ NoEnv
    /\ calc = Idle
    /\ life \in {[Connecting EXCEPT !.render_mode = m] : m \in RenderModes}
    /\ agg = Idle

NextLife ==
    \/ Connect
    \/ Configure
    \/ Request
    \/ Close
    \/ Render

SpecLife == InitLife /\ [][NextLife]_vars

(***************************************************************************)
(* C16.  Construction attempts the handshake at most 5 times and stops at  *)
(* the first success; when every attempt fails with a connection error it  *)
(* raises without having issued configure, reset or step.  The loop ends:  *)
(* while it runs, the retries left are positive and are 5 minus the        *)
(* attempts made.                                                          *)
(***************************************************************************)
C16_BoundedHandshake ==
    /\ life.attempts <= 5
    /\ life.pc = "connecting" =>
          /\ life.retries > 0
          /\ life.retries = Retries - life.attempts
          /\ ~life.loadbalancer_gateway
    /\ life.pc \in {"configuring", "ready"} => life.loadbalancer_gateway
    /\ life.loadbalancer_gateway =>
          life.attempts = (Retries - life.retries) + 1
    /\ (life.pc = "failed" /\ life.cause = "connection") =>
          /\ life.attempts = 5
          /\ life.retries = 0
          /\ life.configure_calls = 0
          /\ life.requests = 0
    /\ (life.configure_calls > 0 \/ life.requests > 0) =>
          life.loadbalancer_gateway

\* Five attempts failed with a connection error and __init__ raised.
C16_Witness ==
    /\ life.pc = "failed"
    /\ life.cause = "connection"
    /\ life.attempts = 5

(***************************************************************************)
(* C17.  configure is issued exactly once, after a successful connection   *)
(* and before any reset; when the simulator rejects it, it is not retried, *)
(* close releases the connection and __init__ raises, so that no reset or  *)
(* step is ever issued.                                                    *)
(***************************************************************************)
C17_ConfigureOnce ==
    /\ life.configure_calls <= 1
    /\ life.configure_calls = 1 => life.loadbalancer_gateway
    /\ life.pc = "ready" => life.configure_calls = 1
    /\ life.requests > 0 => (life.configure_calls = 1 /\ life.pc = "ready")
    /\ (life.pc = "failed" /\ life.cause = "configure") =>
          /\ life.closes = 1
          /\ life.close_requests = 1
          /\ life.shutdown_requests = 1
          /\ life.requests = 0

\* configureSimulation was called once and rejected; __init__ raised.
C17_Witness ==
    /\ life.pc = "failed"
    /\ life.cause = "configure"
    /\ life.configure_calls = 1

(***************************************************************************)
(* C18.  close on an already closed interface raises nothing and sends no  *)
(* further close or shutdown request.                                      *)
(***************************************************************************)
C18_CloseIdempotent ==
    (life.last.op = "close" /\ life.last.was_closed) =>
        /\ ~life.last.raised
        /\ life.last.sent_close = 0
        /\ life.last.sent_shutdown = 0

(***************************************************************************)
(* SaveOnBestTrainingRewardCallback                                        *)
(* (src/drl-manager/mnt/callbacks/save_on_best_training_reward_callback.py)*)
(* The object is the state; _on_step is the one handler.  Its lists are    *)
(* sequences here.  The training loop, the Monitor wrapper and the files   *)
(* of log_dir are external: the loop hands over one step at a time, the    *)
(* Monitor has written the row of an episode before _on_step sees its last *)
(* step, and each file operation succeeds or raises.                       *)
(***************************************************************************)
RollingWindow == 100   \* monitor_results.r.iloc[-100:]

MaxEpisodeLen == 2     \* steps of one episode
MaxEpisodes == 2       \* episodes of one run

\* self.best_mean_reward = -np.inf
NegInf == [neg_inf |-> TRUE]

\* The lists _clear_episode_details empties.
ListNames ==
    {"actions", "rewards", "new_observations", "reward_wait_times",
     "reward_unutilizations", "reward_costs", "reward_queue_penalties",
     "reward_invalid_actions", "assignment_successes",
     "create_vm_successes", "destroy_vm_successes",
     "invalid_actions_taken", "host_affected_ids", "cores_changed",
     "actual_vm_counts", "current_clocks"}

\* The lists filled by info.get(key, default): list, key, default.
InfoLists ==
    {<<"reward_wait_times", "reward_wait_time", 0>>,
     <<"reward_unutilizations", "reward_unutilization", 0>>,
     <<"reward_costs", "reward_cost", 0>>,
     <<"reward_queue_penalties", "reward_queue_penalty", 0>>,
     <<"reward_invalid_actions", "reward_invalid_action", 0>>,
     <<"assignment_successes", "assignment_success", FALSE>>,
     <<"create_vm_successes", "create_vm_success", FALSE>>,
     <<"destroy_vm_successes", "destroy_vm_success", FALSE>>,
     <<"invalid_actions_taken", "invalid_action_taken", FALSE>>,
     <<"host_affected_ids", "host_affected_id", -1>>,
     <<"cores_changed", "cores_changed", 0>>,
     <<"actual_vm_counts", "actual_vm_count", 0>>,
     <<"current_clocks", "current_clock", 0>>}

\* The columns of the episode table next to timestep: column, list, and the
\* index into the action for the four action columns (0 for the others).
Columns ==
    {<<"clock", "current_clocks", 0>>,
     <<"action_type", "actions", 1>>,
     <<"target_vm_id", "actions", 2>>,
     <<"target_host_id", "actions", 3>>,
     <<"vm_type_index", "actions", 4>>,
     <<"reward_total", "rewards", 0>>,
     <<"reward_wait_time", "reward_wait_times", 0>>,
     <<"reward_unutilization", "reward_unutilizations", 0>>,
     <<"reward_cost", "reward_costs", 0>>,
     <<"reward_queue_penalty", "reward_queue_penalties", 0>>,
     <<"reward_invalid_action", "reward_invalid_actions", 0>>,
     <<"assignment_success", "assignment_successes", 0>>,
     <<"create_vm_success", "create_vm_successes", 0>>,
     <<"destroy_vm_success", "destroy_vm_successes", 0>>,
     <<"invalid_action_taken", "invalid_actions_taken", 0>>,
     <<"host_affected_id", "host_affected_ids", 0>>,
     <<"cores_changed", "cores_changed", 0>>,
     <<"actual_vm_count", "actual_vm_counts", 0>>}

\* What a step hands over: the action, its reward, its info dict.
EmptyInfo == [k \in {} |-> 0]

InvalidInfo ==
    [k \in {"invalid_action_taken", "host_affected_id"} |->
        IF k = "host_affected_id" THEN 1 ELSE TRUE]

StepsTaken ==
    {[action |-> <<NoOp, 0, 0, 0>>, reward |-> 1, info |-> EmptyInfo],
     [action |-> <<CreateVm, 0, 1, 0>>, reward |-> -1, info |-> InvalidInfo]}

\* The step before any step.
NoStep ==
    [done |-> FALSE, objective |-> FALSE, mean |-> NegInf,
     best_before |-> NegInf, improved |-> FALSE, model_saved |-> FALSE,
     table_written |-> FALSE, removal_failed |-> FALSE, errors |-> 0,
     rows |-> -1, tables_before |-> {}, model_before |-> 0,
     raised |-> FALSE, returned |-> FALSE]

\* The sum of a column, halving it so that the evaluation stays shallow.
RECURSIVE SumSeq(_)
SumSeq(s) ==
    IF s = <<>> THEN 0
    ELSE IF Len(s) = 1 THEN s[1]
    ELSE LET half == Len(s) \div 2
         IN  SumSeq(SubSeq(s, 1, half)) + SumSeq(SubSeq(s, half + 1, Len(s)))

\* r.iloc[-100:]
LastWindow(r) ==
    IF Len(r) <= RollingWindow THEN r
    ELSE SubSeq(r, Len(r) - RollingWindow + 1, Len(r))

\* np.mean of a non-empty column, as an exact fraction
Mean(r) == [num |-> SumSeq(r), den |-> Len(r)]

\* x > best for the fraction x and a best that is a fraction or -inf
GreaterThan(x, best) ==
    IF best = NegInf THEN TRUE ELSE x.num * best.den > best.num * x.den

\* mean_reward >= self.best_mean_reward
improved_or_equal(mean_reward, best) ==
    best = NegInf \/ mean_reward.num * best.den >= best.num * mean_reward.den

\* mean_reward > self.best_mean_reward
improved(mean_reward, best) == GreaterThan(mean_reward, best)

\* The lists of the episode are kept.
episode_details_kept(a) == a

\* _clear_episode_details
clear_episode_details(a) ==
    [a EXCEPT !.lists = [n \in ListNames |-> <<>>],
              !.current_episode_length = 0]

\* __init__ with the log_dir given (truthy or empty), before any step.  The
\* Monitor file (rows of r and l, and the episode under way) and the files
\* of log_dir (best_model as the ordinal of the episode it was saved at, 0
\* for none; the ordinals of the best_episode_details files) are held with
\* the object.
NewCallback(log_dir, horizon) ==
    [log_dir |-> log_dir, best_mean_reward |-> NegInf,
     current_episode_num_monitor |-> 0,
     lists |-> [n \in ListNames |-> <<>>],
     current_episode_length |-> 0, num_timesteps |-> 0,
     monitor_r |-> <<>>, monitor_l |-> <<>>,
     monitor_return |-> 0, monitor_length |-> 0,
     best_model |-> 0, tables |-> {},
     horizon |-> horizon, last |-> NoStep]

\* _save_timestep_details
save_timestep_details(a, infos_present, action, reward, info) ==
    IF ~infos_present THEN a
    ELSE [a EXCEPT
            !.lists = [n \in ListNames |->
                CASE n = "actions" -> Append(@[n], action)
                  [] n = "rewards" -> Append(@[n], reward)
                  [] \E t \in InfoLists : t[1] = n ->
                       LET t == CHOOSE u \in InfoLists : u[1] = n
                       IN  Append(@[n], DictGet(info, t[2], t[3]))
                  [] OTHER -> @[n]],
            !.current_episode_length = @ + 1]

\* value[:expected_len], or value padded to expected_len
Fit(value, expected_len, padding_val) ==
    [i \in 1 .. expected_len |->
        IF i <= Len(value) THEN value[i] ELSE padding_val]

\* _create_episode_details_dict
create_episode_details_dict(a) ==
    LET ep_last_timestep == a.num_timesteps
        ep_first_timestep == ep_last_timestep - a.current_episode_length + 1
        expected_len == a.current_episode_length
        timesteps == [i \in 1 .. (ep_last_timestep - ep_first_timestep + 1)
                         |-> ep_first_timestep + i - 1]
        column(t) ==
            IF t[3] = 0 THEN a.lists[t[2]]
            ELSE [i \in 1 .. Len(a.lists[t[2]]) |-> a.lists[t[2]][i][t[3]]]
        padding_val(t) ==
            IF t[2] \in {"assignment_successes", "create_vm_successes",
                         "destroy_vm_successes", "invalid_actions_taken"}
               /\ a.lists[t[2]] # <<>>
            THEN PyNone ELSE 0
    IN  [name \in {"timestep"} \cup {t[1] : t \in Columns} |->
            IF name = "timestep" THEN Fit(timesteps, expected_len, 0)
            ELSE LET t == CHOOSE u \in Columns : u[1] = name
                 IN  Fit(column(t), expected_len, padding_val(t))]

\* The rows of the DataFrame built from the dict.
Rows(details) == Len(details["timestep"])

\* _save_best_episode_details: the earlier tables are removed (kept is what
\* an OSError of the removal leaves, empty for none), then the table is
\* assembled and written; an exception of either part is logged.
save_best_episode_details(a, episode_num, kept, write_raises) ==
    IF ~a.log_dir THEN a
    ELSE LET details == create_episode_details_dict(a)
             written == IF write_raises THEN {} ELSE {episode_num}
         IN  [a EXCEPT
                !.tables = kept \cup written,
                !.last.rows = Rows(details),
                !.last.table_written = ~write_raises,
                !.last.removal_failed = kept # {},
                !.last.errors = @ + (IF kept # {} THEN 1 ELSE 0)
                                  + (IF write_raises THEN 1 ELSE 0)]

\* _save_best_model (save_replay_buffer is left at its default, False)
save_best_model(a) ==
    IF ~a.log_dir THEN a
    ELSE [a EXCEPT !.best_model = a.current_episode_num_monitor,
                   !.last.model_saved = TRUE]

\* The exception leaves _on_step.
exception_escapes(a) == [a EXCEPT !.last.raised = TRUE]

\* except Exception as e: logger.error(...)
exception_logged(a) == [a EXCEPT !.last.errors = @ + 1]

\* The block of _on_step under `if self.log_dir:`; any exception inside it
\* is logged by the handler of the block.
check_for_new_best(a, load_raises, save_raises, kept, write_raises) ==
    LET logged == exception_logged(a)
        monitor_results == a.monitor_r
        mean_reward == Mean(LastWindow(monitor_results))
        seen == [a EXCEPT !.last.objective = TRUE,
                          !.last.mean = mean_reward]
        better == [seen EXCEPT !.best_mean_reward = mean_reward,
                               !.last.improved = TRUE]
    IN  IF load_raises THEN logged
        ELSE IF Len(monitor_results) = 0 THEN a
        ELSE IF ~improved(mean_reward, a.best_mean_reward) THEN seen
        ELSE IF save_raises /\ a.log_dir
        THEN exception_logged(better)
        ELSE save_best_episode_details(save_best_model(better),
                 a.current_episode_num_monitor, kept, write_raises)

\* What the training loop and the Monitor wrapper did with the step before
\* _on_step is called.
monitor_step(a, reward, done) ==
    LET ret_now == a.monitor_return + reward
        len_now == a.monitor_length + 1
    IN  [a EXCEPT
           !.num_timesteps = @ + 1,
           !.monitor_r = IF done THEN Append(@, ret_now) ELSE @,
           !.monitor_l = IF done THEN Append(@, len_now) ELSE @,
           !.monitor_return = IF done THEN 0 ELSE ret_now,
           !.monitor_length = IF done THEN 0 ELSE len_now]

\* _on_step for the step handed over (action, reward, info) and the outcomes
\* io of the file operations
on_step(a0, infos_present, step, done, io) ==
    LET a == [monitor_step(a0, step.reward, done) EXCEPT
                !.last = [NoStep EXCEPT !.done = done,
                                        !.best_before = a0.best_mean_reward,
                                        !.tables_before = a0.tables,
                                        !.model_before = a0.best_model]]
        recorded == save_timestep_details(a, infos_present, step.action,
                                          step.reward, step.info)
        counted == [recorded EXCEPT !.current_episode_num_monitor = @ + 1]
        checked == IF counted.log_dir
                   THEN check_for_new_best(counted, io.load_raises,
                                           io.save_raises, io.kept,
                                           io.write_raises)
                   ELSE counted
        after == IF ~done THEN recorded
                 ELSE IF checked.last.raised THEN checked
                 ELSE clear_episode_details(checked)
    IN  IF after.last.raised THEN after
        ELSE [after EXCEPT !.last.returned = TRUE]

\* The callback after k >= 2 episodes of two steps, rewards -1, -1 in the
\* first one and 1, -1 in the others, with no file operation failing: the
\* mean -2/k has risen with every episode, so each one was saved.
SeasonedAfter(k) ==
    [NewCallback(TRUE, k + MaxEpisodes) EXCEPT
       !.best_mean_reward = [num |-> -2, den |-> k],
       !.current_episode_num_monitor = k,
       !.num_timesteps = 2 * k,
       !.monitor_r = [i \in 1 .. k |-> IF i = 1 THEN -2 ELSE 0],
       !.monitor_l = [i \in 1 .. k |-> 2],
       !.best_model = k,
       !.tables = {k},
       !.last = [done |-> TRUE, objective |-> TRUE,
                 mean |-> [num |-> -2, den |-> k],
                 best_before |-> [num |-> -2, den |-> k - 1],
                 improved |-> TRUE, model_saved |-> TRUE,
                 table_written |-> TRUE, removal_failed |-> FALSE,
                 errors |-> 0, rows |-> 2, tables_before |-> {k - 1},
                 model_before |-> k - 1, raised |-> FALSE,
                 returned |-> TRUE]]

\* A callback that has seen RollingWindow episodes.
Seasoned == SeasonedAfter(RollingWindow)

\* The training loop calls _on_step after a step of the environment.  The
\* file operations are reached by a step that ends an episode only, and an
\* operation that raises keeps the later ones from being reached.
OnStep ==
    /\ agg.current_episode_num_monitor < agg.horizon
    /\ \E step \in StepsTaken, done \in BOOLEAN,
          load_raises \in BOOLEAN, save_raises \in BOOLEAN,
          kept \in SUBSET agg.tables, write_raises \in BOOLEAN :
        /\ (agg.monitor_length + 1 >= MaxEpisodeLen) => done
        /\ (~done \/ load_raises) => ~save_raises
        /\ (~done \/ load_raises \/ save_raises) =>
              (kept = {} /\ ~write_raises)
        /\ ~done => ~load_raises
        /\ agg' = on_step(agg, TRUE, step, done,
                          [load_raises |-> load_raises,
                           save_raises |-> save_raises, kept |-> kept,
                           write_raises |-> write_raises])
    /\ UNCHANGED <<env_vars, calc, life>>

InitAgg ==
    /\ NoEnv
    /\ calc = Idle
    /\ life = Idle
    /\ agg \in {NewCallback(log_dir, MaxEpisodes) : log_dir \in BOOLEAN}
                \cup {Seasoned}

NextAgg == OnStep

SpecAgg == InitAgg /\ [][NextAgg]_vars

\* Every list of the episode is empty.
AccumulatorsEmpty == \A n \in ListNames : agg.lists[n] = <<>>

\* The lists _save_timestep_details appends to.
AppendedLists == ListNames \ {"new_observations"}

(***************************************************************************)
(* C19.  After N steps that do not end the episode and one that does, the  *)
(* table assembled for the episode has N+1 rows (the length the Monitor    *)
(* wrote for the episode), and right after that step every list is empty   *)
(* and the episode step count is 0, whether or not anything was saved.     *)
(* Between episode ends every appended list is as long as the episode.     *)
(***************************************************************************)
C19_EpisodeBoundary ==
    /\ agg.last.done =>
          /\ AccumulatorsEmpty
          /\ agg.current_episode_length = 0
          /\ agg.last.rows # -1 =>
                agg.last.rows = agg.monitor_l[Len(agg.monitor_l)]
    /\ ~agg.last.done =>
          /\ agg.current_episode_length = agg.monitor_length
          /\ \A n \in AppendedLists :
                Len(agg.lists[n]) = agg.current_episode_length

\* The first episode had one step before its last one; its table, of two
\* rows, was assembled.
C19_Witness ==
    /\ agg.last.done
    /\ agg.current_episode_num_monitor = 1
    /\ agg.monitor_l = <<2>>
    /\ agg.last.rows = 2

(***************************************************************************)
(* C20.  At an episode end the model and the table of the episode are      *)
(* saved only if the mean reward of the last 100 completed episodes is     *)
(* strictly greater than the best value so far, and they are saved         *)
(* whenever it is, log_dir is set and no file operation fails.  After a    *)
(* saving in which no file operation failed exactly one best-episode table *)
(* exists, the one of the current episode ordinal.  When the mean is not   *)
(* greater the files are left as they were.                                *)
(***************************************************************************)
C20_SaveOnImprovement ==
    agg.last.done =>
        LET l == agg.last
            ordinal == agg.current_episode_num_monitor
            rolling_mean == Mean(LastWindow(agg.monitor_r))
            greater == GreaterThan(rolling_mean, l.best_before)
        IN  /\ (l.model_saved \/ l.table_written) => greater
            /\ l.objective => (l.mean = rolling_mean /\ (l.improved <=> greater))
            /\ (agg.log_dir /\ l.errors = 0) =>
                  ((l.model_saved /\ l.table_written) <=> greater)
            /\ (l.model_saved /\ l.table_written /\ l.errors = 0) =>
                  /\ agg.tables = {ordinal}
                  /\ agg.best_model = ordinal
            /\ ~l.improved =>
                  /\ agg.tables = l.tables_before
                  /\ agg.best_model = l.model_before
                  /\ agg.best_mean_reward = l.best_before

\* An episode past the hundredth raised the rolling mean: the model and the
\* table were saved and the table of an earlier episode is gone.
C20_Witness ==
    /\ agg.last.done
    /\ agg.current_episode_num_monitor > RollingWindow
    /\ agg.last.model_saved
    /\ agg.last.table_written
    /\ agg.last.errors = 0
    /\ agg.last.tables_before # {}
    /\ agg.tables = {agg.current_episode_num_monitor}

(***************************************************************************)
(* C21.  The best model and the best-episode table are replaced together:  *)
(* after any episode end, one with a failing file operation included, the  *)
(* files are either the model and tables of before or the model and the    *)
(* one table of the episode that just ended.                               *)
(***************************************************************************)
C21_AtomicReplacement ==
    (agg.last.done /\ agg.log_dir) =>
        \/ /\ agg.best_model = agg.last.model_before
           /\ agg.tables = agg.last.tables_before
        \/ /\ agg.best_model = agg.current_episode_num_monitor
           /\ agg.tables = {agg.current_episode_num_monitor}

(***************************************************************************)
(* C22.  A failure of loading the Monitor results or of saving the model   *)
(* or the table does not leave _on_step: it returns True, raises nothing,  *)
(* and the lists of the episode are cleared all the same.                  *)
(***************************************************************************)
C22_FailuresDoNotInterrupt ==
    /\ ~agg.last.raised
    /\ (agg.last.done \/ agg.num_timesteps > 0) => agg.last.returned
    /\ (agg.last.done /\ agg.last.errors > 0) =>
          /\ AccumulatorsEmpty
          /\ agg.current_episode_length = 0

\* An episode end at which a file operation failed.
C22_Witness ==
    /\ agg.last.done
    /\ agg.last.errors > 0
    /\ agg.last.returned

(***************************************************************************)
(* C30.  The best mean reward never decreases and is raised only at an     *)
(* episode end whose model was saved: when log_dir is set and the best     *)
(* value is finite, a saved best model exists.                             *)
(***************************************************************************)
C30_BestBackedByModel ==
    /\ agg.last.best_before # NegInf =>
          /\ agg.best_mean_reward # NegInf
          /\ ~GreaterThan(agg.last.best_before, agg.best_mean_reward)
    /\ agg.best_mean_reward # agg.last.best_before => agg.last.model_saved
    /\ (agg.log_dir /\ agg.best_mean_reward # NegInf) => agg.best_model # 0

(***************************************************************************)
(* C23.  With a render mode set, render on a connected environment whose   *)
(* simulator answers the request returns (ansi) or prints (human) the      *)
(* simulator's view, not an error message, and it leaves the requests      *)
(* counted on the gateway and the connection as they were.                 *)
(***************************************************************************)
C23_RenderGivesView ==
    (life.last.op = "render" /\ life.last.answered
        /\ life.render_mode # "none") =>
        /\ ~life.last.raised
        /\ life.render_mode = "ansi" => life.last.returned = "view"
        /\ life.render_mode = "human" => life.last.printed = "view"

\* The indices a mask of the load-balancing-only variant enables.
LegalIndices(mask) == {i \in DOMAIN mask : mask[i]}

(***************************************************************************)
(* C24.  In the load-balancing-only variant, when work is pending (waiting *)
(* count and next cloudlet PEs both non-zero) index 0 is illegal and index *)
(* n >= 1 is legal iff VM n-1 has at least the PEs of the next cloudlet,   *)
(* every VM index being enabled when no VM has; for waiting 5, next PEs 4  *)
(* and available PEs 2, 4, 8 the legal indices are 2 and 3.                *)
(***************************************************************************)
C24_LoadBalancingMask ==
    (calc.op = "lb_mask" /\ calc.waiting_cloudlets # 0
        /\ calc.next_cloudlet_pes # 0) =>
        LET n == Len(calc.available_pes)
            qualified == {v \in 1 .. n :
                            calc.available_pes[v] >= calc.next_cloudlet_pes}
        IN  /\ 0 \notin LegalIndices(calc.mask)
            /\ LegalIndices(calc.mask) =
                  IF qualified = {} THEN 1 .. n ELSE qualified
            /\ (calc.waiting_cloudlets = 5 /\ calc.next_cloudlet_pes = 4
                  /\ calc.available_pes = <<2, 4, 8>>) =>
                  LegalIndices(calc.mask) = {2, 3}

\* The mask for waiting 5, next PEs 4 and available PEs 2, 4, 8.
C24_Witness ==
    /\ calc.op = "lb_mask"
    /\ calc.waiting_cloudlets = 5
    /\ calc.next_cloudlet_pes = 4
    /\ calc.available_pes = <<2, 4, 8>>
    /\ LegalIndices(calc.mask) = {2, 3}

(***************************************************************************)
(* C26.  Decoding reports a truncation only when the raw tree array is     *)
(* strictly longer than the target; a raw array of exactly the target      *)
(* length is copied whole and no truncation is reported.                   *)
(***************************************************************************)
C26_TruncationOnlyWhenLonger ==
    calc.op = "decode_tree" =>
        LET raw == calc.raw.infrastructure_observation
            out == calc.result.obs.infrastructure_observation
            target == tree_array_max_len(calc.config)
        IN  /\ calc.result.warned => Len0(raw) > target
            /\ Len0(raw) = target =>
                  /\ \A i \in Range0(target) : out[i] = raw[i]
                  /\ TruncationReports(calc.result) = 0

(***************************************************************************)
(* C27.  When hosts_count, host_pes or small_vm_pes is zero or negative,   *)
(* max_potential_vms is the larger of 10 and the sum of the initial small, *)
(* medium and large VM counts, so it is at least 10.                       *)
(***************************************************************************)
C27_DegenerateFallback ==
    calc.op = "shape_degenerate" =>
        LET c == calc.config
            initial_vm_total == c.initial_s_vm_count + c.initial_m_vm_count
                                  + c.initial_l_vm_count
        IN  /\ calc.max_potential_vms >= 10
            /\ calc.max_potential_vms >= initial_vm_total
            /\ calc.max_potential_vms \in {10, initial_vm_total}

\* A configuration without hosts and with one initial VM: the fallback is 10.
C27_Witness ==
    /\ calc.op = "shape_degenerate"
    /\ calc.config.hosts_count = 0
    /\ calc.config.initial_s_vm_count = 1
    /\ calc.config.initial_m_vm_count = 0
    /\ calc.max_potential_vms = 10

\* The entries a segment of the returned mask enables.
EnabledVmIds ==
    {v \in Range0(max_potential_vms(cfg)) : VmIdBit(ret.mask, cfg, v)}

EnabledHostIds ==
    {h \in Range0(num_hosts(cfg)) : HostIdBit(ret.mask, cfg, h)}

EnabledVmTypes ==
    {t \in Range0(NumVmTypes) : VmTypeBit(ret.mask, cfg, t)}

\* NoOp is the only action type the returned mask enables.
OnlyNoOpLegal ==
    /\ ActionTypeBit(ret.mask, NoOp)
    /\ \A t \in Range0(NumActionTypes) \ {NoOp} : ~ActionTypeBit(ret.mask, t)

(***************************************************************************)
(* C25.  Whenever NoOp is the only legal action type of a mask, the VM-id, *)
(* host-id and VM-type segments each enable exactly one entry, index 0.    *)
(***************************************************************************)
C25_NoOpOnlyDummies ==
    (MaskReturned /\ OnlyNoOpLegal) =>
        /\ EnabledVmIds = {0}
        /\ EnabledHostIds = {0}
        /\ EnabledVmTypes = {0}

\* A mask with NoOp alone, computed from a stored snapshot in which a
\* cloudlet waits and no VM is on: the Assign rule ran and found no target.
C25_Witness ==
    /\ MaskReturned
    /\ OnlyNoOpLegal
    /\ SnapshotStored
    /\ HasAttr(last_observation)
    /\ GreaterThanEpsilon(waiting_cloudlets_of(last_observation))
    /\ EnabledVmIds = {0}

(***************************************************************************)
(* C28.  The VM count that the Create and Destroy rules of the mask        *)
(* compare with max_potential_vms and with zero is the actual VM count the *)
(* simulator reported with the last snapshot, also when the absent VM      *)
(* slots hold the sentinel -1.                                             *)
(***************************************************************************)
C28_MaskUsesReportedVmCount ==
    (MaskReturned /\ SnapshotStored /\ ~IsNull(reply.observation)) =>
        actual_vm_count_of(last_observation)
            = reply.observation.actual_vm_count

(***************************************************************************)
(* C29.  Every legal action type other than NoOp has a real target in the  *)
(* same mask: with Assign or Destroy legal some enabled VM-id slot holds a *)
(* VM that is on; with Create legal some enabled host-id slot is a host    *)
(* with load and RAM ratio below 0.99 and all three VM types are enabled.  *)
(***************************************************************************)
C29_LegalTypesHaveTargets ==
    MaskReturned =>
        /\ (\/ ActionTypeBit(ret.mask, AssignCloudlet)
            \/ ActionTypeBit(ret.mask, DestroyVm)) =>
              \E v \in EnabledVmIds : last_observation.vm_types[v] > 0
        /\ ActionTypeBit(ret.mask, CreateVm) =>
              /\ \E h \in EnabledHostIds :
                    HostFree(last_observation.host_loads,
                             last_observation.host_ram_usage_ratio, h)
              /\ EnabledVmTypes = Range0(NumVmTypes)

\* A mask in which Assign, Create and Destroy are legal together.
C29_Witness ==
    /\ MaskReturned
    /\ ActionTypeBit(ret.mask, AssignCloudlet)
    /\ ActionTypeBit(ret.mask, CreateVm)
    /\ ActionTypeBit(ret.mask, DestroyVm)

====
